---- MODULE Spec2Model ----
(***************************************************************************)
(* Model of the placeholder substitution engine of app.py:                 *)
(*   normalize_broken_placeholders_in_doc, replace_placeholders_in_        *)
(*   paragraph and advanced_replace_text_preserving_style.                 *)
(*                                                                         *)
(* A text is a sequence of characters, each a one-character string (or     *)
(* "U+XXXX" when it cannot be written so).  A run is a record              *)
(* [id, text, font]; a paragraph (container) is a sequence of runs.        *)
(* Offsets are 0-based and half-open, as in the Python code.               *)
(***************************************************************************)
EXTENDS Integers, Sequences, FiniteSets, TLC

VARIABLES
    pc,         \* position of the running call
    repl,       \* the replacements mapping: key text -> value text
    para,       \* replace_placeholders_in_paragraph: paragraph.runs
    para0,      \* the runs the call started with
    offsets,    \* the local list offsets: <<[s, e]>> per run
    matches,    \* the local list matches
    mi,         \* index in matches of the next match the for loop takes
    doc,        \* the document the document-wide calls work on
    doc0,       \* the document the call started with
    doc1,       \* the document when the first normalizer call returned
    calls,      \* number of normalizer calls that have returned
    k           \* loop index of the orchestrator in the current region

vars == <<pc, repl, para, para0, offsets, matches, mi, doc, doc0, doc1, calls, k>>

----------------------------------------------------------------------------
(* Bounds of the explored inputs *)

MaxRuns == 3
MaxPieces == 2
MaxSections == 2

----------------------------------------------------------------------------
(* Python string primitives *)

None == "None"

Min(a, b) == IF a < b THEN a ELSE b
Max(a, b) == IF a > b THEN a ELSE b

Range(s) == {s[i] : i \in DOMAIN s}

\* text[:n] for n >= 0
SliceTo(text, n) == SubSeq(text, 1, Min(n, Len(text)))

\* text[n:] for n >= 0
SliceFrom(text, n) == SubSeq(text, n + 1, Len(text))

\* pat in text
Contains(text, pat) ==
    \E i \in 1..(Len(text) - Len(pat) + 1) : SubSeq(text, i, i + Len(pat) - 1) = pat

\* text.replace(old, new), old non-empty: leftmost non-overlapping occurrences
RECURSIVE StrReplace(_, _, _)
StrReplace(text, old, new) ==
    IF Len(text) < Len(old) THEN text
    ELSE IF SubSeq(text, 1, Len(old)) = old
         THEN new \o StrReplace(SubSeq(text, Len(old) + 1, Len(text)), old, new)
         ELSE <<Head(text)>> \o StrReplace(Tail(text), old, new)

----------------------------------------------------------------------------
(* PLACEHOLDER_RE = \{\{\s*([A-Za-z0-9_\-/]+)\s*\}\} *)

KeyChars ==
    {"A","B","C","D","E","F","G","H","I","J","K","L","M",
     "N","O","P","Q","R","S","T","U","V","W","X","Y","Z",
     "a","b","c","d","e","f","g","h","i","j","k","l","m",
     "n","o","p","q","r","s","t","u","v","w","x","y","z",
     "0","1","2","3","4","5","6","7","8","9","_","-","/"}

\* \s of a str pattern without re.ASCII: every character c with c.isspace().
\* U+000B, U+001C-U+001F, U+0085, U+00A0 and U+1680 are written literally;
\* a character that cannot be written in a string stands as "U+" and its
\* code point.
SpaceChars ==
    {" ", "\t", "\n", "\r", "\f",
     "", "", "", "", "", "", " ", " ",
     "U+2000", "U+2001", "U+2002", "U+2003", "U+2004", "U+2005",
     "U+2006", "U+2007", "U+2008", "U+2009", "U+200A",
     "U+2028", "U+2029", "U+202F", "U+205F", "U+3000"}

\* first index j >= i with text[j] not in cls (Len(text)+1 when there is none):
\* where a greedy cls* started at i stops
RECURSIVE SkipWhile(_, _, _)
SkipWhile(text, i, cls) ==
    IF i <= Len(text) /\ text[i] \in cls THEN SkipWhile(text, i + 1, cls) ELSE i

CharAt(text, i) == IF i >= 1 /\ i <= Len(text) THEN text[i] ELSE None

\* what MatchAt gives when the pattern does not match
NoMatch == [start |-> -1, end |-> -1, key |-> <<>>]

\* The match of PLACEHOLDER_RE anchored at 1-based index p, or NoMatch.
\* start/end are the 0-based match.start()/match.end(); key is group(1).
\* The two character classes are disjoint from each other and from the
\* braces, so the greedy choice is the only one that can succeed.
MatchAt(text, p) ==
    LET b == SkipWhile(text, p + 2, SpaceChars)
        c == SkipWhile(text, b, KeyChars)
        d == SkipWhile(text, c, SpaceChars)
    IN  IF /\ CharAt(text, p) = "{" /\ CharAt(text, p + 1) = "{"
           /\ c > b
           /\ CharAt(text, d) = "}" /\ CharAt(text, d + 1) = "}"
        THEN [start |-> p - 1, end |-> d + 1, key |-> SubSeq(text, b, c - 1)]
        ELSE NoMatch

\* list(PLACEHOLDER_RE.finditer(text)) scanning from 1-based index p
RECURSIVE FindIter(_, _)
FindIter(text, p) ==
    IF p > Len(text) THEN <<>>
    ELSE LET m == MatchAt(text, p)
         IN  IF m = NoMatch THEN FindIter(text, p + 1)
             ELSE <<m>> \o FindIter(text, m.end + 1)

----------------------------------------------------------------------------
(* normalize_broken_placeholders_in_doc, the statement applied to one run *)

LL == <<"(", "(">>
RR == <<")", ")">>
OO == <<"{", "{">>
CC == <<"}", "}">>

NormalizeText(text) ==
    IF Contains(text, LL) \/ Contains(text, RR)
    THEN StrReplace(StrReplace(text, LL, OO), RR, CC)
    ELSE text

NormalizeRun(run) == [run EXCEPT !.text = NormalizeText(run.text)]

NormalizePara(runs) == [i \in DOMAIN runs |-> NormalizeRun(runs[i])]

NormalizeParas(paras) == [i \in DOMAIN paras |-> NormalizePara(paras[i])]

----------------------------------------------------------------------------
(* replace_placeholders_in_paragraph *)

RECURSIVE ConcatTexts(_)
ConcatTexts(runs) ==
    IF runs = <<>> THEN <<>> ELSE Head(runs).text \o ConcatTexts(Tail(runs))

\* the offsets list: run i occupies [s, e) of full_text
BuildOffsets(runs) ==
    [i \in DOMAIN runs |->
        [s |-> Len(ConcatTexts(SubSeq(runs, 1, i - 1))),
         e |-> Len(ConcatTexts(SubSeq(runs, 1, i)))]]

\* variant: runs that merely touch the match count as overlapping
Overlaps_Touching(o, p_start, p_end) == ~(o.e < p_start \/ o.s > p_end)

Overlaps(o, p_start, p_end) == ~(o.e <= p_start \/ o.s >= p_end)

\* indexes of the overlapping runs, in run order
Overlapping(offs, p_start, p_end) ==
    LET idx == [i \in DOMAIN offs |-> i]
    IN  SelectSeq(idx, LAMBDA i : Overlaps(offs[i], p_start, p_end))

\* font.size when the size is not set (None)
NoSize == -1

\* "if font.name:" and "if font.size:"
TruthyName(v) == v # None /\ v # ""
TruthySize(v) == v # NoSize /\ v # 0

\* the style copy of the try block: the font read from one run is
\* assigned to the font of run target (name: a string or None; size: a number or
\* NoSize; bold, italic, underline: "True", "False" or None; rgb: a colour
\* or None).  An exception inside the try block skips the remaining
\* assignments and is swallowed; it changes no other state.
CopyFont(target, font) ==
    [name      |-> IF TruthyName(font.name) THEN font.name ELSE target.name,
     size      |-> IF TruthySize(font.size) THEN font.size ELSE target.size,
     bold      |-> font.bold,
     italic    |-> font.italic,
     underline |-> font.underline,
     rgb       |-> IF font.rgb # None THEN font.rgb ELSE target.rgb]

\* variant: the font of the last overlapping run is copied
StyleRun_Last(ov) == ov[Len(ov)]

\* index of the run whose font is copied onto the merged run
StyleRun(ov) == ov[1]

\* index of the run that receives prefix + replacement + suffix
TargetRun(ov) == ov[1]

\* variant: the start of the first run is not subtracted
PrefixOf_Absolute(runs, offs, first, p_start) ==
    SliceTo(runs[first].text, Max(0, p_start))

\* the prefix kept from the first overlapping run
PrefixOf(runs, offs, first, p_start) ==
    SliceTo(runs[first].text, Max(0, p_start - offs[first].s))

\* the suffix kept from the last overlapping run
SuffixOf(runs, offs, last, p_end) ==
    SliceFrom(runs[last].text, p_end - offs[last].s)

\* runs after "for r in overlapping: r.text = ''"
ClearRuns(runs, ov) ==
    [i \in DOMAIN runs |->
        IF i \in Range(ov) THEN [runs[i] EXCEPT !.text = <<>>] ELSE runs[i]]

\* one iteration of "for match in matches" on the current runs
ReplaceMatch(runs, offs, m, replacements) ==
    IF m.key \notin DOMAIN replacements THEN runs
    ELSE
      LET ov == Overlapping(offs, m.start, m.end)
      IN  IF ov = <<>> THEN runs
          ELSE
            LET first    == ov[1]
                last     == ov[Len(ov)]
                prefix   == PrefixOf(runs, offs, first, m.start)
                suffix   == SuffixOf(runs, offs, last, m.end)
                cleared  == ClearRuns(runs, ov)
                new_text == prefix \o replacements[m.key] \o suffix
                tgt      == TargetRun(ov)
            IN  [cleared EXCEPT
                    ![tgt].text = new_text,
                    ![tgt].font = CopyFont(cleared[tgt].font, cleared[StyleRun(ov)].font)]

RECURSIVE ReplaceLoop(_, _, _, _, _)
ReplaceLoop(runs, offs, ms, i, replacements) ==
    IF i > Len(ms) THEN runs
    ELSE ReplaceLoop(ReplaceMatch(runs, offs, ms[i], replacements),
                     offs, ms, i + 1, replacements)

\* the whole call on one paragraph
ReplacePlaceholdersInParagraph(runs, replacements) ==
    IF runs = <<>> THEN runs
    ELSE ReplaceLoop(runs, BuildOffsets(runs), FindIter(ConcatTexts(runs), 1),
                     1, replacements)

ReplaceParas(paras, replacements) ==
    [i \in DOMAIN paras |-> ReplacePlaceholdersInParagraph(paras[i], replacements)]

----------------------------------------------------------------------------
(* The document: body paragraphs, tables[t][r][c] = the paragraphs of a     *)
(* cell, and sections with a header and a footer.  header_raises and        *)
(* footer_raises say that reading section.header / section.footer (or its   *)
(* paragraphs) raises an exception.                                         *)

RECURSIVE Flatten(_)
Flatten(ss) == IF ss = <<>> THEN <<>> ELSE Head(ss) \o Flatten(Tail(ss))

\* <<t, r, c, p>> of every table paragraph in the order of the nested loops
\* "for table / for row / for cell / for para"
TableParaPaths(d) ==
    Flatten([t \in DOMAIN d.tables |->
      Flatten([r \in DOMAIN d.tables[t] |->
        Flatten([c \in DOMAIN d.tables[t][r] |->
          [p \in DOMAIN d.tables[t][r][c] |-> <<t, r, c, p>>]])])])

\* The header of section i is region 2i-1 and its footer region 2i, in the
\* order the section loop reads them.  RaiseAt is the first region whose
\* access raises: the loop is left there, inside one try block.
RaiseAt(secs) ==
    LET bad == {2 * i - 1 : i \in {j \in DOMAIN secs : secs[j].header_raises}}
               \cup {2 * i : i \in {j \in DOMAIN secs : secs[j].footer_raises}}
    IN  IF bad = {} THEN 2 * Len(secs) + 1
        ELSE CHOOSE b \in bad : \A c \in bad : b <= c

\* region g is read, and its paragraphs handled, by the section loop
RegionReached(secs, g) == g < RaiseAt(secs)

\* lines 44-57: the section loop of the normalizer
NormalizeSections(secs) ==
    [i \in DOMAIN secs |->
        [secs[i] EXCEPT
            !.header = IF RegionReached(secs, 2 * i - 1)
                       THEN NormalizeParas(@) ELSE @,
            !.footer = IF RegionReached(secs, 2 * i)
                       THEN NormalizeParas(@) ELSE @]]

\* lines 32-57: normalize_broken_placeholders_in_doc
NormalizeDoc(d) ==
    [body     |-> NormalizeParas(d.body),
     tables   |-> [t \in DOMAIN d.tables |->
                    [r \in DOMAIN d.tables[t] |->
                      [c \in DOMAIN d.tables[t][r] |->
                        NormalizeParas(d.tables[t][r][c])]]],
     sections |-> NormalizeSections(d.sections)]

----------------------------------------------------------------------------
(* Inputs: texts, their splits into runs, fonts, mappings *)

RECURSIVE Str(_)
\* a text from the list of its characters' pieces
Str(pieces) == IF pieces = <<>> THEN <<>> ELSE Head(pieces) \o Str(Tail(pieces))

TokA == <<"{", "{", "A", "}", "}">>
TokB == <<"{", "{", "B", "}", "}">>
TokU == <<"{", "{", " ", "U", "}", "}">>

Pieces == {TokA, TokB, TokU, <<"x">>}

\* the containers of the specification's test scenarios
TextMulti ==
    <<"{","{","M","1","}","}"," ","/"," ","{","{","P","H","1","}","}">>
TextSplit ==
    <<"B","a","t","c","h",":"," ","{","{","B","A","T","C","H","_","1","}","}">>

TextsOf(n) ==
    UNION {{Str(ps) : ps \in [1..j -> Pieces]} : j \in 1..n}

\* two tokens with keys of the mapping followed by one with an unknown key
TextMixed == TokA \o TokB \o TokU

\* "x{{" + NBSP + "A" + EM SPACE + "}}": a token padded with non-ASCII spaces
TextSpaces == <<"x", "{", "{", " ", "A", "U+2003", "}", "}">>

TextPool == TextsOf(MaxPieces) \cup {TextMulti, TextSplit, TextMixed, TextSpaces}

FontPool ==
    << [name |-> None, size |-> NoSize, bold |-> None, italic |-> None,
        underline |-> None, rgb |-> None],
       [name |-> "Arial", size |-> 12, bold |-> "True", italic |-> "False",
        underline |-> None, rgb |-> "FF0000"],
       [name |-> "", size |-> 0, bold |-> "False", italic |-> "True",
        underline |-> "True", rgb |-> None],
       [name |-> "Calibri", size |-> 9, bold |-> None, italic |-> None,
        underline |-> "False", rgb |-> "0000FF"] >>

FontAt(i) == FontPool[((i - 1) % Len(FontPool)) + 1]

\* the runs of a container whose text is cut at the (non-decreasing) 0-based
\* positions cuts; equal cuts give empty runs
MkRuns(text, cuts) ==
    LET n    == Len(cuts) + 1
        lo(i) == IF i = 1 THEN 0 ELSE cuts[i - 1]
        hi(i) == IF i = n THEN Len(text) ELSE cuts[i]
    IN  [i \in 1..n |->
            [id |-> i, text |-> SubSeq(text, lo(i) + 1, hi(i)), font |-> FontAt(i)]]

CutsOf(text, n) ==
    {c \in [1..(n - 1) -> 0..Len(text)] : \A i \in 1..(n - 2) : c[i] <= c[i + 1]}

K_A == <<"A">>
K_B == <<"B">>
K_M1 == <<"M", "1">>
K_PH1 == <<"P", "H", "1">>
K_BATCH_1 == <<"B", "A", "T", "C", "H", "_", "1">>

\* the values are the strings of the form's text fields (lines 313-345);
\* a field left empty gives an empty value
MapEmpty == (K_A :> <<>>) @@ (K_B :> <<"7">>)
MapLong  == (K_A :> <<"x">>) @@ (K_B :> <<"1", "2", ".", "5", "0", "0", "0">>)
MapDoc   == (K_M1 :> <<"2", ".", "5">>) @@ (K_PH1 :> <<"7", ".", "0">>)
            @@ (K_BATCH_1 :> <<"L", "-", "2", "0", "4">>)

MapPool == {MapEmpty, MapLong, MapDoc}

NoDoc == [body |-> <<>>, tables |-> <<>>, sections |-> <<>>]

----------------------------------------------------------------------------
(* Specification of one call replace_placeholders_in_paragraph *)

InitPara ==
    /\ pc = "start"
    /\ repl \in MapPool
    /\ \/ para = <<>>
       \/ \E t \in TextPool : \E n \in 1..MaxRuns : \E c \in CutsOf(t, n) :
             para = MkRuns(t, c)
    /\ para0 = para
    /\ offsets = <<>>
    /\ matches = <<>>
    /\ mi = 1
    /\ doc = NoDoc /\ doc0 = NoDoc /\ doc1 = NoDoc
    /\ calls = 0
    /\ k = 0

docVars == <<doc, doc0, doc1, calls, k>>

\* lines 61-76: the early returns, full_text, offsets and matches
ParaBegin ==
    /\ pc = "start"
    /\ offsets' = BuildOffsets(para)
    /\ matches' = IF para = <<>> THEN <<>> ELSE FindIter(ConcatTexts(para), 1)
    /\ pc' = IF matches' = <<>> THEN "done" ELSE "loop"
    /\ UNCHANGED <<repl, para, para0, mi>>
    /\ UNCHANGED docVars

\* lines 78-122: one iteration of the loop over matches
ParaMatch ==
    /\ pc = "loop"
    /\ mi <= Len(matches)
    /\ para' = ReplaceMatch(para, offsets, matches[mi], repl)
    /\ mi' = mi + 1
    /\ UNCHANGED <<pc, repl, para0, offsets, matches>>
    /\ UNCHANGED docVars

\* the loop is exhausted and the call returns
ParaReturn ==
    /\ pc = "loop"
    /\ mi > Len(matches)
    /\ pc' = "done"
    /\ UNCHANGED <<repl, para, para0, offsets, matches, mi>>
    /\ UNCHANGED docVars

NextPara == ParaBegin \/ ParaMatch \/ ParaReturn

SpecPara == InitPara /\ [][NextPara]_vars

----------------------------------------------------------------------------
(* Properties of one call replace_placeholders_in_paragraph *)

\* the text, offsets and matches of the container the call started with
full0 == ConcatTexts(para0)
offs0 == BuildOffsets(para0)
ms0 == FindIter(full0, 1)

Known(m) == m.key \in DOMAIN repl

TokenText(text, m) == SubSeq(text, m.start + 1, m.end)

\* the text from 0-based position pos on, with the tokens ms[i], ms[i+1], ...
\* whose keys are in the mapping replaced by their values
RECURSIVE Substituted(_, _, _, _)
Substituted(text, ms, i, pos) ==
    IF i > Len(ms) THEN SliceFrom(text, pos)
    ELSE SubSeq(text, pos + 1, ms[i].start)
         \o (IF Known(ms[i]) THEN repl[ms[i].key] ELSE TokenText(text, ms[i]))
         \o Substituted(text, ms, i + 1, ms[i].end)

\* the run with offsets o holds at least one character of the match m
Covers(o, m) == o.s < m.end /\ o.e > m.start

\* C1: when the original text holds two or more tokens, all with keys in the
\* mapping, the text after the call is the original text with every token
\* replaced by its value, whatever the split into runs.
C1_MultiMatch ==
    pc = "done" =>
        LET ms == ms0
        IN  (Len(ms) >= 2 /\ \A i \in DOMAIN ms : Known(ms[i]))
                => ConcatTexts(para) = Substituted(full0, ms, 1, 0)

\* C2: after the call the concatenated text holds no token whose key is in
\* the mapping.
C2_Coverage ==
    pc = "done" =>
        \A m \in Range(FindIter(ConcatTexts(para), 1)) : ~Known(m)

\* C3: every token of the original text whose key is not in the mapping still
\* appears verbatim in the text after the call.
C3_UnknownKept ==
    pc = "done" =>
        LET ms == ms0
            after == ConcatTexts(para)
        IN  \A i \in DOMAIN ms :
                ~Known(ms[i]) => Contains(after, TokenText(full0, ms[i]))

\* C4: with exactly one token in the original text, its key in the mapping,
\* the text after the call is (text before the token) + value + (text after
\* the token), however the token is fragmented across runs.
C4_SplitToken ==
    pc = "done" =>
        LET ms == ms0
        IN  (Len(ms) = 1 /\ Known(ms[1]))
                => ConcatTexts(para) =
                      SubSeq(full0, 1, ms[1].start) \o repl[ms[1].key]
                      \o SliceFrom(full0, ms[1].end)

\* a single known token fragmented across three runs, one of them empty, has
\* been substituted
C4_Witness ==
    /\ pc = "done"
    /\ LET ms == ms0
           offs == offs0
       IN  /\ Len(ms) = 1 /\ Known(ms[1])
           /\ Cardinality({i \in DOMAIN para0 : Covers(offs[i], ms[1])}) = 3
           /\ \E i \in DOMAIN para0 :
                 /\ para0[i].text = <<>>
                 /\ offs[i].s > ms[1].start /\ offs[i].s < ms[1].end
    /\ ConcatTexts(para) # full0

\* C7: once the loop has handled a match whose key is in the mapping, the run
\* that held the first character of the token holds the value, and every
\* run's font (name, size, bold, italic, underline, colour) is the one it
\* started with.
C7_StylePreserved ==
    /\ Len(para) = Len(para0)
    /\ \A j \in DOMAIN para0 : para[j].font = para0[j].font
    /\ (pc \in {"loop", "done"} /\ mi > 1 /\ Known(matches[mi - 1])) =>
          LET m == matches[mi - 1]
              offs == offs0
          IN  \E i \in DOMAIN para0 :
                  /\ offs[i].s <= m.start /\ m.start < offs[i].e
                  /\ Contains(para[i].text, repl[m.key])

\* a known token spanning two runs with different fonts has just been
\* replaced by a non-empty value
C7_Witness ==
    /\ pc = "loop" /\ mi > 1 /\ Known(matches[mi - 1])
    /\ repl[matches[mi - 1].key] # <<>>
    /\ LET m == matches[mi - 1]
           offs == offs0
       IN  \E i, j \in DOMAIN para0 :
              /\ i < j /\ Covers(offs[i], m) /\ Covers(offs[j], m)
              /\ para0[i].font # para0[j].font
              /\ para[j].text = <<>>

\* C8: the call keeps the number and order of the runs, and the text of every
\* run that holds no character of a token whose key is in the mapping; so a
\* container without tokens, or with unknown keys only, keeps all its texts.
C8_Frame ==
    /\ Len(para) = Len(para0)
    /\ LET ms == ms0
           offs == offs0
       IN  \A i \in DOMAIN para0 :
              /\ para[i].id = para0[i].id
              /\ (\A j \in DOMAIN ms : Known(ms[j]) => ~Covers(offs[i], ms[j]))
                    => para[i].text = para0[i].text

\* the call has rewritten a run next to a non-empty run that holds no
\* character of a known token
C8_Witness ==
    /\ pc = "done"
    /\ \E i \in DOMAIN para0 : para[i].text # para0[i].text
    /\ LET ms == ms0
           offs == offs0
       IN  \E i \in DOMAIN para0 :
              /\ para0[i].text # <<>>
              /\ \A j \in DOMAIN ms : Known(ms[j]) => ~Covers(offs[i], ms[j])
              /\ \E j \in DOMAIN ms :
                    /\ Known(ms[j])
                    /\ (offs[i].e = ms[j].start \/ offs[i].s = ms[j].end)

----------------------------------------------------------------------------
(* Documents *)

MaxCalls == 2

Runs(texts) == [i \in DOMAIN texts |-> [id |-> i, text |-> texts[i], font |-> FontAt(i)]]

\* "((BATCH_1}}" in one run
ParaCorrupt == Runs(<< <<"(","(","B","A","T","C","H","_","1","}","}">> >>)
\* "{{A" + "))"
ParaClose == Runs(<< <<"{","{","A">>, <<")",")">> >>)
\* "(" + "(A}}": the corrupted delimiter is split across two runs
ParaSplit == Runs(<< <<"(">>, <<"(","A","}","}">> >>)
\* "(((B)))x"
ParaOdd == Runs(<< <<"(","(","(","B",")",")",")","x">> >>)
\* "{{A}}"
ParaTok == Runs(<< TokA >>)
\* "x"
ParaPlain == Runs(<< <<"x">> >>)

Bodies == {<<>>, <<ParaCorrupt>>, <<ParaSplit, ParaOdd>>}

TableSets ==
    {<<>>,
     << << << <<ParaClose>>, <<ParaPlain, ParaCorrupt>> >>, << <<ParaOdd>> >> >> >>}

SectionPool ==
    {[header_raises |-> hr, header |-> hf[1], footer_raises |-> fr, footer |-> hf[2]] :
        hr \in BOOLEAN, fr \in BOOLEAN,
        hf \in {<< <<ParaCorrupt>>, <<ParaTok>> >>,
                << <<ParaPlain>>, <<ParaClose, ParaOdd>> >>}}

SectionLists == UNION {[1..n -> SectionPool] : n \in 0..MaxSections}

Docs == [body : Bodies, tables : TableSets, sections : SectionLists]

DocMaps == {MapDoc @@ MapLong, MapEmpty}

paraVars == <<para, para0, offsets, matches, mi>>

InitDocWith(p) ==
    /\ pc = p
    /\ repl \in DocMaps
    /\ doc \in Docs
    /\ doc0 = doc
    /\ doc1 = doc
    /\ calls = 0
    /\ k = 1
    /\ para = <<>> /\ para0 = <<>> /\ offsets = <<>> /\ matches = <<>> /\ mi = 1

----------------------------------------------------------------------------
(* Specification of repeated calls normalize_broken_placeholders_in_doc *)

InitNorm == InitDocWith("norm")

NormalizeAgain ==
    /\ pc = "norm"
    /\ calls < MaxCalls
    /\ doc' = NormalizeDoc(doc)
    /\ doc1' = IF calls = 0 THEN doc' ELSE doc1
    /\ calls' = calls + 1
    /\ UNCHANGED <<pc, repl, doc0, k>>
    /\ UNCHANGED paraVars

NextNorm == NormalizeAgain

SpecNorm == InitNorm /\ [][NextNorm]_vars

----------------------------------------------------------------------------
(* Specification of one call advanced_replace_text_preserving_style *)

Init == InitDocWith("normalize")

\* line 125
CallNormalize ==
    /\ pc = "normalize"
    /\ doc' = NormalizeDoc(doc)
    /\ doc1' = doc'
    /\ calls' = calls + 1
    /\ pc' = "body"
    /\ k' = 1
    /\ UNCHANGED <<repl, doc0>>
    /\ UNCHANGED paraVars

\* lines 127-128, one iteration
ReplaceBodyPara ==
    /\ pc = "body"
    /\ k <= Len(doc.body)
    /\ doc' = [doc EXCEPT !.body[k] = ReplacePlaceholdersInParagraph(@, repl)]
    /\ k' = k + 1
    /\ UNCHANGED <<pc, repl, doc0, doc1, calls>>
    /\ UNCHANGED paraVars

BodyDone ==
    /\ pc = "body"
    /\ k > Len(doc.body)
    /\ pc' = "tables"
    /\ k' = 1
    /\ UNCHANGED <<repl, doc, doc0, doc1, calls>>
    /\ UNCHANGED paraVars

\* lines 130-134, one iteration of the innermost loop
ReplaceTablePara ==
    /\ pc = "tables"
    /\ k <= Len(TableParaPaths(doc))
    /\ LET q == TableParaPaths(doc)[k]
       IN  doc' = [doc EXCEPT !.tables[q[1]][q[2]][q[3]][q[4]] =
                        ReplacePlaceholdersInParagraph(@, repl)]
    /\ k' = k + 1
    /\ UNCHANGED <<pc, repl, doc0, doc1, calls>>
    /\ UNCHANGED paraVars

TablesDone ==
    /\ pc = "tables"
    /\ k > Len(TableParaPaths(doc))
    /\ pc' = "header"
    /\ k' = 1
    /\ UNCHANGED <<repl, doc, doc0, doc1, calls>>
    /\ UNCHANGED paraVars

\* lines 139-141: the header of section k
ReplaceHeader ==
    /\ pc = "header"
    /\ k <= Len(doc.sections)
    /\ ~doc.sections[k].header_raises
    /\ doc' = [doc EXCEPT !.sections[k].header = ReplaceParas(@, repl)]
    /\ pc' = "footer"
    /\ UNCHANGED <<repl, doc0, doc1, calls, k>>
    /\ UNCHANGED paraVars

\* lines 142-144: the footer of section k
ReplaceFooter ==
    /\ pc = "footer"
    /\ ~doc.sections[k].footer_raises
    /\ doc' = [doc EXCEPT !.sections[k].footer = ReplaceParas(@, repl)]
    /\ pc' = "header"
    /\ k' = k + 1
    /\ UNCHANGED <<repl, doc0, doc1, calls>>
    /\ UNCHANGED paraVars

\* lines 145-146: an exception leaves the section loop
SectionRaises ==
    /\ \/ pc = "header" /\ k <= Len(doc.sections) /\ doc.sections[k].header_raises
       \/ pc = "footer" /\ doc.sections[k].footer_raises
    /\ pc' = "done"
    /\ UNCHANGED <<repl, doc, doc0, doc1, calls, k>>
    /\ UNCHANGED paraVars

SectionsDone ==
    /\ pc = "header"
    /\ k > Len(doc.sections)
    /\ pc' = "done"
    /\ UNCHANGED <<repl, doc, doc0, doc1, calls, k>>
    /\ UNCHANGED paraVars

Next ==
    \/ CallNormalize
    \/ ReplaceBodyPara
    \/ BodyDone
    \/ ReplaceTablePara
    \/ TablesDone
    \/ ReplaceHeader
    \/ ReplaceFooter
    \/ SectionRaises
    \/ SectionsDone

Spec == Init /\ [][Next]_vars

----------------------------------------------------------------------------
(* Properties of the document-wide calls *)

\* the paragraphs of the document that can be read: the body, the table
\* cells, and the headers and footers whose access does not raise
ReadableParas(d) ==
    d.body
    \o [j \in DOMAIN TableParaPaths(d) |->
          LET q == TableParaPaths(d)[j] IN d.tables[q[1]][q[2]][q[3]][q[4]]]
    \o Flatten([i \in DOMAIN d.sections |->
          (IF d.sections[i].header_raises THEN <<>> ELSE d.sections[i].header)
          \o (IF d.sections[i].footer_raises THEN <<>> ELSE d.sections[i].footer)])

NoRaise(d) == RaiseAt(d.sections) = 2 * Len(d.sections) + 1

HasBroken(text) == Contains(text, LL) \/ Contains(text, RR)

\* every "((" replaced by "{{" and every "))" by "}}"
Repaired(text) == StrReplace(StrReplace(text, LL, OO), RR, CC)

\* the text is one token with a key of the mapping, and nothing else
IsKnownToken(text) ==
    LET ms == FindIter(text, 1)
    IN  Len(ms) = 1 /\ ms[1].start = 0 /\ ms[1].end = Len(text) /\ Known(ms[1])

IdempotentOn(before, once, now) ==
    /\ calls >= 2 => now = once
    /\ calls >= 1 =>
          \A j \in DOMAIN before : \A r \in DOMAIN before[j] :
              /\ ~HasBroken(now[j][r].text)
              /\ ~HasBroken(before[j][r].text)
                    => now[j][r].text = before[j][r].text

\* C5: a second call of the normalizer changes no run text, text without
\* "((" and "))" is never changed, and after one call no run of the document
\* holds "((" or "))".
C5_NormalizeIdempotent ==
    IdempotentOn(ReadableParas(doc0), ReadableParas(doc1), ReadableParas(doc))

RunLocalOn(before, once) ==
    calls >= 1 =>
        \A j \in DOMAIN before :
            /\ Len(once[j]) = Len(before[j])
            /\ \A r \in DOMAIN before[j] :
                  /\ once[j][r].text = Repaired(before[j][r].text)
                  /\ ~HasBroken(before[j][r].text)
                        => once[j][r].text = before[j][r].text
            /\ \A r \in 1..(Len(before[j]) - 1) :
                  LET t == before[j][r].text
                      u == before[j][r + 1].text
                  IN  (/\ t # <<>> /\ u # <<>>
                       /\ t[Len(t)] = "(" /\ u[1] = "("
                       /\ ~Contains(t, LL) /\ ~Contains(u, LL))
                      => /\ once[j][r].text[Len(t)] = "("
                         /\ once[j][r + 1].text[1] = "("

\* C10: the normalizer sets the text of each run to that run's old text with
\* "((" replaced by "{{" and "))" by "}}"; a run with neither is unchanged and
\* a "((" split across two adjacent runs stays as it is.
C10_RunLocal ==
    RunLocalOn(ReadableParas(doc0), ReadableParas(doc1))

SubstitutedOn(before, now) ==
    pc = "done" =>
        \A j \in DOMAIN before : \A r \in DOMAIN before[j] :
            LET t == before[j][r].text
            IN  (HasBroken(t) /\ IsKnownToken(Repaired(t)))
                    => now[j][r].text = repl[FindIter(Repaired(t), 1)[1].key]

\* C6: the whole document is normalized before any container is matched, so
\* when the call returns every run that held one token with corrupted
\* delimiters and a key of the mapping, such as "((BATCH_1}}", holds the
\* value.
C6_NormalizeFirst ==
    /\ pc \notin {"normalize", "norm"} => calls = 1
    /\ SubstitutedOn(ReadableParas(doc0), ReadableParas(doc))

\* C9: when the call returns, every header and every footer whose access does
\* not raise has had all its paragraphs substituted, whichever other header or
\* footer raised.
C9_LocalFailure ==
    pc = "done" =>
        \A i \in DOMAIN doc.sections :
            /\ ~doc.sections[i].header_raises
                  => doc.sections[i].header = ReplaceParas(doc1.sections[i].header, repl)
            /\ ~doc.sections[i].footer_raises
                  => doc.sections[i].footer = ReplaceParas(doc1.sections[i].footer, repl)

\* On documents whose headers and footers can all be read, C5, C10, C6 and C9
\* hold.
C5_NoRaise == NoRaise(doc0) => C5_NormalizeIdempotent
C10_NoRaise == NoRaise(doc0) => C10_RunLocal
C6_NoRaise == NoRaise(doc0) => C6_NormalizeFirst
C9_NoRaise == NoRaise(doc0) => C9_LocalFailure

====
